---- MODULE Spec2Model ----
(***************************************************************************)
(* Model of the NBA same-game-parlay builder (src/app.py): the minutes     *)
(* gate, the floor line, the per-player picks, the main-team inference,    *)
(* the greedy slip selection and the SAFE reduction, together with the     *)
(* button handler that chains them.                                        *)
(*                                                                         *)
(* Python values are modelled as follows.                                  *)
(*   - a list is a sequence, a dict with fixed keys is a record;           *)
(*   - a candidate dict carries one extra field, id, standing for the      *)
(*     identity of the Python object (make_safe compares with `is`);       *)
(*   - None is the string "None" where the other values are strings, -1    *)
(*     where they are non-negative integers, and the empty sequence for    *)
(*     floor_df (build_floor_output always returns four rows);             *)
(*   - str comparison of player names and stat names is given by           *)
(*     NameOrder and StatOrder (positions in lexicographic order);         *)
(*   - the product min(values) * 0.90 is an IEEE-754 double product,       *)
(*     computed bit by bit with round-half-to-even.                        *)
(***************************************************************************)
EXTENDS Integers, Sequences, FiniteSets, TLC

VARIABLES pc, team_a, team_b, teamA_players, teamB_players, risk_mode, legs_n,
          players_meta, main_team, cands, n_legs, chosen, safe,
          last5, values, mins_ok, line, floor_df

vars == <<pc, team_a, team_b, teamA_players, teamB_players, risk_mode, legs_n,
          players_meta, main_team, cands, n_legs, chosen, safe,
          last5, values, mins_ok, line, floor_df>>

(***************************************************************************)
(* Bounds of the model.                                                    *)
(***************************************************************************)
\* longest list of games a player of a checked window has
MaxGames == 6
\* largest single stat value handed to floor_line on its own
MaxStat == 40
\* longest list handed to floor_line on its own
MaxValues == 2
\* most players a team's fetched log holds
MaxPlayers == 2
\* longest candidate pool handed to build_sgp on its own
MaxPool == 4
\* longest slip handed to make_safe on its own
MaxSlip == 4
\* longest list of player entries handed to choose_main_team on its own
MaxMeta == 4
MaxSortPool == 3

(***************************************************************************)
(* Generic helpers.                                                        *)
(***************************************************************************)
Min(S) == CHOOSE x \in S : \A y \in S : x <= y

Range(s) == {s[i] : i \in 1..Len(s)}

Take(s, n) == SubSeq(s, 1, IF n < Len(s) THEN n ELSE Len(s))

\* all sequences over S of length lo..hi
SeqsOf(S, lo, hi) == UNION {[1..n -> S] : n \in lo..hi}

\* Python tuple comparison a < b for two integer tuples of the same length
RECURSIVE TupleLess(_, _)
TupleLess(a, b) ==
    IF a = <<>> \/ b = <<>> THEN FALSE
    ELSE IF Head(a) # Head(b) THEN Head(a) < Head(b)
    ELSE TupleLess(Tail(a), Tail(b))

\* list.sort(key=...) / sorted: a stable sort, ascending by key, of a
\* sequence of pairs [k |-> key tuple, v |-> element]
RECURSIVE InsertStable(_, _)
InsertStable(x, s) ==
    IF s = <<>> THEN <<x>>
    ELSE IF TupleLess(x.k, Head(s).k) THEN <<x>> \o s
    ELSE <<Head(s)>> \o InsertStable(x, Tail(s))

RECURSIVE SortPairs(_)
SortPairs(s) ==
    IF s = <<>> THEN <<>>
    ELSE InsertStable(s[Len(s)], SortPairs(SubSeq(s, 1, Len(s) - 1)))

\* the elements of a sorted sequence of pairs
Unkey(sorted) == [i \in 1..Len(sorted) |-> sorted[i].v]

(***************************************************************************)
(* LOCKED MODEL RULES                                                      *)
(***************************************************************************)
VARIANCE_RANK == [REB |-> 1, AST |-> 1, PRA |-> 2, PTS |-> 3]

PREF_ORDER == <<"REB", "AST", "PRA", "PTS">>

\* PREF_ORDER.index(stat), zero-based
PrefIndex(stat) == (CHOOSE i \in 1..Len(PREF_ORDER) : PREF_ORDER[i] = stat) - 1

\* position of a stat name in str order: "AST" < "PRA" < "PTS" < "REB"
StatOrder(stat) == [AST |-> 1, PRA |-> 2, PTS |-> 3, REB |-> 4][stat]

PlayerNames == {"Adams", "Jones"}

\* position of a player name in str order: "Adams" < "Jones" < "Smith"
NameOrder(name) == [Adams |-> 1, Jones |-> 2, Smith |-> 3][name]

(***************************************************************************)
(* minutes_gate                                                            *)
(***************************************************************************)
\* any() written for all() in the first clause
minutes_gate_any28(w) ==
    LET mins == [i \in 1..Len(w) |-> w[i].min] IN
    IF Len(mins) # 5 THEN FALSE
    ELSE (\E i \in 1..5 : mins[i] >= 28)
         \/ Cardinality({i \in 1..5 : mins[i] > 30}) >= 4

minutes_gate(w) ==
    LET mins == [i \in 1..Len(w) |-> w[i].min]
        all_28_plus == \A i \in 1..Len(mins) : mins[i] >= 28
        over_30_count == Cardinality({i \in 1..Len(mins) : mins[i] > 30})
    IN  IF Len(mins) # 5 THEN FALSE
        ELSE all_28_plus \/ (over_30_count >= 4)

(***************************************************************************)
(* floor_line: int(math.floor(min(values) * 0.90)) if values else 0        *)
(*                                                                         *)
(* 0.90 is the double 0x1.ccccccccccccdp-1 = 8106479329266893 * 2^-53.     *)
(* Its 53 mantissa bits, least significant first, are 1011, twelve times   *)
(* 0011, then 1.                                                           *)
(***************************************************************************)
NinetyPctBit(i) ==
    IF i = 0 THEN 1
    ELSE IF i = 1 THEN 0
    ELSE IF i = 52 THEN 1
    ELSE IF i % 4 \in {2, 3} THEN 1 ELSE 0

\* the bits (least significant first) of m * 8106479329266893, from bit i on
RECURSIVE MulBits(_, _, _)
MulBits(i, m, carry) ==
    IF i < 53
    THEN LET t == NinetyPctBit(i) * m + carry
         IN  <<t % 2>> \o MulBits(i + 1, m, t \div 2)
    ELSE IF carry = 0 THEN <<>>
    ELSE <<carry % 2>> \o MulBits(i + 1, m, carry \div 2)

RECURSIVE BitsToNat(_)
BitsToNat(bits) ==
    IF bits = <<>> THEN 0 ELSE Head(bits) + 2 * BitsToNat(Tail(bits))

\* math.floor(m * 0.90) for an int m >= 0: the exact product m * mantissa is
\* rounded to 53 significant bits (ties to even) and the integer part taken
FloorTimes90(m) ==
    LET P == MulBits(0, m, 0)
        ones == {k \in 1..Len(P) : P[k] = 1}
        bitlen == IF ones = {} THEN 0 ELSE CHOOSE k \in ones : \A j \in ones : j <= k
        s == IF bitlen > 53 THEN bitlen - 53 ELSE 0
        roundUp == /\ s > 0
                   /\ P[s] = 1
                   /\ \/ \E k \in 1..(s - 1) : P[k] = 1
                      \/ P[s + 1] = 1
        hi == BitsToNat(SubSeq(P, 54, Len(P)))
        carryIn == roundUp /\ \A k \in (s + 1)..53 : P[k] = 1
    IN  hi + (IF carryIn THEN 1 ELSE 0)

(***************************************************************************)
(* Game lines, as build_last5_logs_for_team builds them                    *)
(***************************************************************************)
Game(mins, pts, reb, ast) ==
    [min |-> mins, pts |-> pts, reb |-> reb, ast |-> ast, pra |-> pts + reb + ast]

\* games of the windows handed to minutes_gate on its own
GateGames == {Game(m, 11, 10, 2) : m \in {20, 27, 28, 30, 31}}

\* games of the windows handed to build_floor_output on its own
FloorGames == {Game(31, p, r, 2) : p \in {0, 11}, r \in {1, 10}}

\* the windows of the players of a matchup: a starter (31 minutes, 5/5), a
\* starter with one off night (4 of 5 over 30; REB and PTS floors of 0), a
\* starter with only 4 games, and a bench player (27 minutes, 5/5)
Starter == [i \in 1..5 |-> Game(31, 11, 10, 2)]

OffNight == [i \in 1..5 |-> IF i = 3 THEN Game(20, 0, 1, 2) ELSE Game(31, 11, 10, 2)]

Injured == [i \in 1..4 |-> Game(31, 11, 10, 2)]

Bench == [i \in 1..5 |-> Game(27, 11, 10, 2)]

MatchupWindows == {Starter, OffNight, Injured, Bench}

\* the players a fetched log may hold: name and games
RosterEntries == (PlayerNames \X {Starter, OffNight}) \cup ({"Smith"} \X {Injured, Bench})

\* the values floor_line is applied to in this model, computed once
StatRange ==
    LET tops == {MaxStat} \cup {g.pra : g \in GateGames \cup FloorGames}
                          \cup UNION {{w[i].pra : i \in 1..Len(w)} : w \in MatchupWindows}
    IN  0..(CHOOSE x \in tops : \A y \in tops : y <= x)

FloorTable == [m \in StatRange |-> FloorTimes90(m)]

\* round() written for math.floor()
floor_line_round(vals) ==
    IF vals = <<>> THEN 0 ELSE (9 * Min(Range(vals)) + 5) \div 10

floor_line(vals) ==
    IF vals = <<>> THEN 0 ELSE FloorTable[Min(Range(vals))]

(***************************************************************************)
(* build_floor_output                                                      *)
(***************************************************************************)
StatValues(w, stat) ==
    [i \in 1..Len(w) |-> CASE stat = "REB" -> w[i].reb
                           [] stat = "AST" -> w[i].ast
                           [] stat = "PRA" -> w[i].pra
                           [] stat = "PTS" -> w[i].pts]

\* the key of sort_values(by=["pref", "variance", "stat"])
RowKey(r) == <<r.pref, r.variance, StatOrder(r.stat)>>

\* DataFrame.sort_values(by=["pref", "variance", "stat"])
SortRows(rows) ==
    Unkey(SortPairs([i \in 1..Len(rows) |-> [k |-> RowKey(rows[i]), v |-> rows[i]]]))

FloorRow(stat, arr) ==
    [stat |-> stat,
     min_last5 |-> IF arr # <<>> THEN Min(Range(arr)) ELSE -1,
     line |-> floor_line(arr),
     pref |-> PrefIndex(stat),
     variance |-> VARIANCE_RANK[stat],
     eligible_5of5 |-> (Len(arr) = 5)]

build_floor_output(w) ==
    LET stats == <<"REB", "AST", "PRA", "PTS">>
        rows == [i \in 1..Len(stats) |-> FloorRow(stats[i], StatValues(w, stats[i]))]
    IN  SortRows(rows)

(***************************************************************************)
(* choose_main_team                                                        *)
(***************************************************************************)
\* the loop over players_meta from entry i on; first is "None" until set
RECURSIVE ChooseLoop(_, _, _, _)
ChooseLoop(pms, i, counts, first) ==
    IF i > Len(pms) THEN [counts |-> counts, first |-> first]
    ELSE LET pm == pms[i]
             t == pm.team
         IN  IF ~pm.eligible THEN ChooseLoop(pms, i + 1, counts, first)
             ELSE IF t \in DOMAIN counts
                  THEN ChooseLoop(pms, i + 1, [counts EXCEPT ![t] = @ + 1],
                                  IF first = "None" THEN t ELSE first)
                  ELSE ChooseLoop(pms, i + 1, counts, first)

\* both comparisons turned round: the team with fewer eligible players
choose_main_team_fewer(pms, ta, tb) ==
    LET r == ChooseLoop(pms, 1, [t \in {ta, tb} |-> 0], "None")
    IN  IF r.counts[ta] < r.counts[tb] THEN ta
        ELSE IF r.counts[tb] < r.counts[ta] THEN tb
        ELSE IF r.first # "None" THEN r.first ELSE ta

\* the tie left to the second comparison's else branch
choose_main_team_b_on_tie(pms, ta, tb) ==
    LET r == ChooseLoop(pms, 1, [t \in {ta, tb} |-> 0], "None")
    IN  IF r.counts[ta] > r.counts[tb] THEN ta ELSE tb

choose_main_team(pms, ta, tb) ==
    LET r == ChooseLoop(pms, 1, [t \in {ta, tb} |-> 0], "None")
    IN  IF r.counts[ta] > r.counts[tb] THEN ta
        ELSE IF r.counts[tb] > r.counts[ta] THEN tb
        ELSE IF r.first # "None" THEN r.first ELSE ta

(***************************************************************************)
(* build_sgp                                                               *)
(***************************************************************************)
Clamp(n) == IF n > 5 THEN 5 ELSE IF n < 3 THEN 3 ELSE n

\* the two teams swapped
OppTeam_swapped(ta, tb, main) == IF main = ta THEN ta ELSE tb

OppTeam(ta, tb, main) == IF main = ta THEN tb ELSE ta

\* duplicates looked for within the candidate's team only
InSlip_same_team(slip, c) ==
    \E k \in 1..Len(slip) :
        slip[k].player = c.player /\ slip[k].stat = c.stat /\ slip[k].team = c.team

InSlip(slip, c) == \E k \in 1..Len(slip) : slip[k].player = c.player /\ slip[k].stat = c.stat

\* the loop over cands from candidate i on
RECURSIVE BuildLoop(_, _, _, _, _, _)
BuildLoop(cs, i, opp_team, n, slip, used_opp_player) ==
    IF i > Len(cs) \/ Len(slip) >= n THEN slip
    ELSE LET c == cs[i] IN
         IF c.team = opp_team /\ used_opp_player
         THEN BuildLoop(cs, i + 1, opp_team, n, slip, used_opp_player)
         ELSE LET used == used_opp_player \/ c.team = opp_team IN
              IF InSlip(slip, c)
              THEN BuildLoop(cs, i + 1, opp_team, n, slip, used)
              ELSE BuildLoop(cs, i + 1, opp_team, n, Append(slip, c), used)

\* the loop left one leg late (len(chosen) > n_legs)
build_sgp_late_break(cs, ta, tb, main, n) ==
    BuildLoop(cs, 1, OppTeam(ta, tb, main), Clamp(n) + 1, <<>>, FALSE)

build_sgp(cs, ta, tb, main, n) ==
    BuildLoop(cs, 1, OppTeam(ta, tb, main), Clamp(n), <<>>, FALSE)

(***************************************************************************)
(* make_safe                                                               *)
(***************************************************************************)
SafeKey(x) == <<x.variance, IF x.stat = "PTS" THEN 1 ELSE 0>>

\* max(chosen, key=key): the first leg no other leg's key exceeds
Worst(slip) ==
    LET i == CHOOSE i \in 1..Len(slip) :
                 /\ \A j \in 1..Len(slip) : ~TupleLess(SafeKey(slip[i]), SafeKey(slip[j]))
                 /\ \A j \in 1..(i - 1) : TupleLess(SafeKey(slip[j]), SafeKey(slip[i]))
    IN  slip[i]

\* the worst leg dropped by value (x != worst) rather than by identity
make_safe_by_value(slip) ==
    IF Len(slip) <= 3 THEN slip
    ELSE LET worst == Worst(slip)
         IN  SelectSeq(slip, LAMBDA x : [x EXCEPT !.id = 0] # [worst EXCEPT !.id = 0])

make_safe(slip) ==
    IF Len(slip) <= 3 THEN slip
    ELSE LET worst == Worst(slip)
         IN  SelectSeq(slip, LAMBDA x : x.id # worst.id)

(***************************************************************************)
(* process_team_players: the body of the loop, for one player              *)
(***************************************************************************)
\* the two loops over eligible_df: non-PTS rows first, PTS rows if still short
\* per_player set to 4
Picks_cap4(df) ==
    LET per_player == 4
        eligible_df == SortRows(SelectSeq(df, LAMBDA r : r.eligible_5of5))
        non_pts == Take(SelectSeq(eligible_df, LAMBDA r : r.stat # "PTS"), per_player)
        pts == SelectSeq(eligible_df, LAMBDA r : r.stat = "PTS")
    IN  IF Len(non_pts) < per_player
        THEN non_pts \o Take(pts, per_player - Len(non_pts))
        ELSE non_pts

Picks(df) ==
    LET per_player == 3
        eligible_df == SortRows(SelectSeq(df, LAMBDA r : r.eligible_5of5))
        non_pts == Take(SelectSeq(eligible_df, LAMBDA r : r.stat # "PTS"), per_player)
        pts == SelectSeq(eligible_df, LAMBDA r : r.stat = "PTS")
    IN  IF Len(non_pts) < per_player
        THEN non_pts \o Take(pts, per_player - Len(non_pts))
        ELSE non_pts

ProcessPlayer(info) ==
    LET l5 == Take(info.games, 5)
        eligible_5of5 == Len(l5) = 5
        gate == IF eligible_5of5 THEN minutes_gate(l5) ELSE FALSE
        ok == eligible_5of5 /\ gate
        df == IF ok THEN build_floor_output(l5) ELSE <<>>
    IN  [player_id |-> info.pid,
         name |-> info.name,
         team |-> info.team,
         eligible |-> ok,
         eligible_5of5 |-> eligible_5of5,
         mins_gate |-> gate,
         mins |-> [i \in 1..Len(l5) |-> l5[i].min],
         last5 |-> l5,
         floor_df |-> df,
         picks |-> IF ok /\ df # <<>> THEN Picks(df) ELSE <<>>]

process_team_players(team_players) ==
    [i \in 1..Len(team_players) |-> ProcessPlayer(team_players[i])]

(***************************************************************************)
(* The button handler's own steps                                          *)
(***************************************************************************)
Modes == {"Safe", "Ideal", "Higher-risk"}

_mode_to_legs(mode, ideal_legs) ==
    IF mode = "Safe" THEN 3
    ELSE IF mode = "Higher-risk" THEN 5
    ELSE ideal_legs

_mode_candidate_sort_key(mode, c) ==
    IF mode = "Higher-risk"
    THEN <<c.pref, c.variance, IF c.stat = "PTS" THEN 0 ELSE -1, NameOrder(c.player)>>
    ELSE <<c.pref, c.variance, NameOrder(c.player)>>

\* the candidate dict of one pick; id is the identity of the new dict
Cand(id, player, team, stat, ln) ==
    [id |-> id, player |-> player, team |-> team, stat |-> stat, line |-> ln,
     pref |-> PrefIndex(stat), variance |-> VARIANCE_RANK[stat]]

\* "Flatten candidates": the loop over players_meta from entry i on
RECURSIVE Flatten(_, _, _)
Flatten(meta, i, acc) ==
    IF i > Len(meta) THEN acc
    ELSE LET pm == meta[i]
             new == [k \in 1..Len(pm.picks) |->
                        [id |-> Len(acc) + k, player |-> pm.name, team |-> pm.team,
                         stat |-> pm.picks[k].stat, line |-> pm.picks[k].line,
                         pref |-> pm.picks[k].pref, variance |-> pm.picks[k].variance]]
         IN  Flatten(meta, i + 1, IF pm.eligible THEN acc \o new ELSE acc)

SortCands(cs, mode) ==
    Unkey(SortPairs([i \in 1..Len(cs) |->
                       [k |-> _mode_candidate_sort_key(mode, cs[i]), v |-> cs[i]]]))

(***************************************************************************)
(* Values of the variables a specification does not use: the widgets'      *)
(* defaults and empty results.                                             *)
(***************************************************************************)
NoMatchup ==
    /\ teamA_players = <<>> /\ teamB_players = <<>>
    /\ risk_mode = "Ideal" /\ legs_n = 4

NoSlip == cands = <<>> /\ n_legs = 4 /\ chosen = <<>> /\ safe = <<>>

NoWindow ==
    /\ last5 = <<>> /\ values = <<>> /\ mins_ok = FALSE /\ line = 0 /\ floor_df = <<>>

matchupVars == <<team_a, team_b, teamA_players, teamB_players, risk_mode, legs_n>>

windowVars == <<last5, values, mins_ok, line, floor_df>>

(***************************************************************************)
(* Spec: the "Auto-build best SGP" handler on the fetched logs of a        *)
(* matchup.                                                                *)
(***************************************************************************)
\* sum(min) / max(1, len(games)) of a >= that of b, without division
AvgMinGeq(a, b) ==
    LET Sum(w) == IF w = <<>> THEN 0 ELSE
                     LET RECURSIVE S(_)
                         S(k) == IF k = 0 THEN 0 ELSE w[k].min + S(k - 1)
                     IN  S(Len(w))
        N(w) == IF Len(w) < 1 THEN 1 ELSE Len(w)
    IN  Sum(a) * N(b) >= Sum(b) * N(a)

\* what build_last5_logs_for_team can return for a team: up to MaxPlayers
\* players with distinct ids, ordered by average minutes, highest first
Rosters(team, base) ==
    {r \in {[i \in 1..Len(f) |->
                 [pid |-> base + i, name |-> f[i][1], team |-> team, games |-> f[i][2]]] :
             f \in SeqsOf(RosterEntries, 0, MaxPlayers)} :
        \A i \in 1..(Len(r) - 1) : AvgMinGeq(r[i].games, r[i + 1].games)}

Init ==
    /\ pc = "idle"
    /\ team_a = "LAL" /\ team_b = "DAL"
    /\ teamA_players \in Rosters("LAL", 100)
    /\ teamB_players \in Rosters("DAL", 200)
    /\ risk_mode = "Ideal" /\ legs_n = 4
    /\ players_meta = <<>> /\ main_team = "None"
    /\ NoSlip /\ NoWindow

\* what the handler computes from the fetched logs, up to the inferred main team
Evaluate(teamA, teamB, ta, tb) ==
    LET meta == process_team_players(teamA) \o process_team_players(teamB)
    IN  [players_meta |-> meta,
         eligible_players |-> SelectSeq(meta, LAMBDA p : p.eligible),
         main_team |-> choose_main_team(
                           [i \in 1..Len(meta) |->
                               [eligible |-> meta[i].eligible, team |-> meta[i].team]],
                           ta, tb)]

\* one click with the mode select at mode and the legs slider at legs
RunBtn(mode, legs) ==
    /\ pc = "idle"
    /\ risk_mode' = mode /\ legs_n' = legs
    /\ \E ev \in {Evaluate(teamA_players, teamB_players, team_a, team_b)} :
         /\ players_meta' = ev.players_meta
         /\ IF ev.eligible_players = <<>>
            THEN /\ pc' = "no_bet"
                 /\ UNCHANGED <<main_team, cands, n_legs, chosen, safe>>
            ELSE \E pool \in {SortCands(Flatten(ev.players_meta, 1, <<>>), mode)} :
                 \E slip \in {build_sgp(pool, team_a, team_b, ev.main_team,
                                        _mode_to_legs(mode, legs))} :
                   /\ main_team' = ev.main_team
                   /\ cands' = pool
                   /\ n_legs' = _mode_to_legs(mode, legs)
                   /\ chosen' = slip
                   /\ IF Len(slip) < 3
                      THEN pc' = "no_bet" /\ UNCHANGED safe
                      ELSE pc' = "built" /\ safe' = make_safe(slip)
    /\ UNCHANGED <<team_a, team_b, teamA_players, teamB_players>>
    /\ UNCHANGED windowVars

Next == \E mode \in Modes, legs \in 3..5 : RunBtn(mode, legs)

Spec == Init /\ [][Next]_vars

(***************************************************************************)
(* SpecGate: minutes_gate on a window of any length.                       *)
(***************************************************************************)
InitGate ==
    /\ pc = "call"
    /\ team_a = "LAL" /\ team_b = "DAL" /\ NoMatchup
    /\ players_meta = <<>> /\ main_team = "None" /\ NoSlip
    /\ last5 \in SeqsOf(GateGames, 0, MaxGames)
    /\ values = <<>> /\ mins_ok = FALSE /\ line = 0 /\ floor_df = <<>>

MinutesGate ==
    /\ pc = "call"
    /\ pc' = "minutes_gate"
    /\ mins_ok' = minutes_gate(last5)
    /\ UNCHANGED <<matchupVars, players_meta, main_team, cands, n_legs, chosen, safe,
                   last5, values, line, floor_df>>

SpecGate == InitGate /\ [][MinutesGate]_vars

(***************************************************************************)
(* SpecFloor: floor_line on a list of values, build_floor_output on a      *)
(* window.                                                                 *)
(***************************************************************************)
InitFloor ==
    /\ pc = "call"
    /\ team_a = "LAL" /\ team_b = "DAL" /\ NoMatchup
    /\ players_meta = <<>> /\ main_team = "None" /\ NoSlip
    /\ \/ values \in SeqsOf(0..MaxStat, 0, MaxValues) /\ last5 = <<>>
       \/ values = <<>> /\ last5 \in SeqsOf(FloorGames, 0, MaxGames)
    /\ mins_ok = FALSE /\ line = 0 /\ floor_df = <<>>

FloorLine ==
    /\ pc = "call"
    /\ pc' = "floor_line"
    /\ line' = floor_line(values)
    /\ UNCHANGED <<matchupVars, players_meta, main_team, cands, n_legs, chosen, safe,
                   last5, values, mins_ok, floor_df>>

BuildFloorOutput ==
    /\ pc = "call"
    /\ pc' = "build_floor_output"
    /\ floor_df' = build_floor_output(last5)
    /\ UNCHANGED <<matchupVars, players_meta, main_team, cands, n_legs, chosen, safe,
                   last5, values, mins_ok, line>>

NextFloor == FloorLine \/ BuildFloorOutput

SpecFloor == InitFloor /\ [][NextFloor]_vars

(***************************************************************************)
(* SpecMain: choose_main_team on a list of player entries in any order.    *)
(***************************************************************************)
InitMain ==
    /\ pc = "call"
    /\ team_a \in {"LAL", "DAL"} /\ team_b \in {"LAL", "DAL"} \ {team_a}
    /\ NoMatchup
    /\ players_meta \in SeqsOf([eligible : BOOLEAN, team : {"LAL", "DAL", "NYK"}], 0, MaxMeta)
    /\ main_team = "None"
    /\ NoSlip /\ NoWindow

ChooseMainTeam ==
    /\ pc = "call"
    /\ pc' = "choose_main_team"
    /\ main_team' = choose_main_team(players_meta, team_a, team_b)
    /\ UNCHANGED <<matchupVars, players_meta, cands, n_legs, chosen, safe, windowVars>>

SpecMain == InitMain /\ [][ChooseMainTeam]_vars

(***************************************************************************)
(* SpecBuild: build_sgp on a candidate pool in any order, then make_safe   *)
(* on the slip it returns.                                                 *)
(***************************************************************************)
\* the candidates of a pool handed to build_sgp on its own
PoolLegs == PlayerNames \X {"LAL", "DAL"} \X {"REB", "PTS"}

Pools(S, n) ==
    {[i \in 1..Len(f) |-> Cand(i, f[i][1], f[i][2], f[i][3], 1)] : f \in SeqsOf(S, 0, n)}

InitBuild ==
    /\ pc = "call"
    /\ team_a = "LAL" /\ team_b = "DAL" /\ NoMatchup
    /\ players_meta = <<>>
    /\ main_team \in {team_a, team_b}
    /\ cands \in Pools(PoolLegs, MaxPool)
    /\ n_legs = 4 /\ chosen = <<>> /\ safe = <<>>
    /\ NoWindow

BuildSgp(n) ==
    /\ pc = "call"
    /\ pc' = "build_sgp"
    /\ n_legs' = n
    /\ chosen' = build_sgp(cands, team_a, team_b, main_team, n)
    /\ UNCHANGED <<matchupVars, players_meta, main_team, cands, safe, windowVars>>

MakeSafe ==
    /\ pc = "build_sgp"
    /\ pc' = "make_safe"
    /\ safe' = make_safe(chosen)
    /\ UNCHANGED <<matchupVars, players_meta, main_team, cands, n_legs, chosen, windowVars>>

NextBuild == (\E n \in 2..6 : BuildSgp(n)) \/ MakeSafe

SpecBuild == InitBuild /\ [][NextBuild]_vars

(***************************************************************************)
(* SpecSafe: make_safe on a list of distinct leg objects.                  *)
(***************************************************************************)
\* the legs of a slip handed to make_safe on its own
SlipLegs == PlayerNames \X {"LAL"} \X {"REB", "AST", "PRA", "PTS"}

InitSafe ==
    /\ pc = "call"
    /\ team_a = "LAL" /\ team_b = "DAL" /\ NoMatchup
    /\ players_meta = <<>> /\ main_team = "None"
    /\ cands = <<>> /\ n_legs = 4
    /\ chosen \in Pools(SlipLegs, MaxSlip)
    /\ safe = <<>>
    /\ NoWindow

MakeSafeCall ==
    /\ pc = "call"
    /\ pc' = "make_safe"
    /\ safe' = make_safe(chosen)
    /\ UNCHANGED <<matchupVars, players_meta, main_team, cands, n_legs, chosen, windowVars>>

SpecSafe == InitSafe /\ [][MakeSafeCall]_vars

(***************************************************************************)
(* SpecSort: cands.sort(key=_mode_candidate_sort_key(risk_mode)) on a pool *)
(* of candidate dicts in any order.  The key reads c["pref"],              *)
(* c["variance"], c["stat"] and c["player"], so the pools also hold dicts  *)
(* whose pref and variance are not the ones of their stat.                 *)
(***************************************************************************)
SortLegs ==
    PlayerNames \X {"REB", "PTS"}
        \X {PrefIndex("REB"), PrefIndex("PTS")}
        \X {VARIANCE_RANK["REB"], VARIANCE_RANK["PTS"]}

SortPools ==
    {[i \in 1..Len(f) |->
        [id |-> i, player |-> f[i][1], team |-> "LAL", stat |-> f[i][2], line |-> 1,
         pref |-> f[i][3], variance |-> f[i][4]]] : f \in SeqsOf(SortLegs, 0, MaxSortPool)}

InitSort ==
    /\ pc = "flattened"
    /\ team_a = "LAL" /\ team_b = "DAL" /\ NoMatchup
    /\ players_meta = <<>> /\ main_team = "None"
    /\ cands \in SortPools
    /\ n_legs = 4 /\ chosen = <<>> /\ safe = <<>>
    /\ NoWindow

SortCandidates(mode) ==
    /\ pc = "flattened"
    /\ pc' = "sorted"
    /\ risk_mode' = mode
    /\ cands' = SortCands(cands, mode)
    /\ UNCHANGED <<team_a, team_b, teamA_players, teamB_players, legs_n, players_meta,
                   main_team, n_legs, chosen, safe, windowVars>>

NextSort == \E mode \in Modes : SortCandidates(mode)

SpecSort == InitSort /\ [][NextSort]_vars

(***************************************************************************)
(* The claims.                                                             *)
(***************************************************************************)
Count(slip, P(_)) == Cardinality({k \in 1..Len(slip) : P(slip[k])})

RemoveAt(s, k) == SubSeq(s, 1, k - 1) \o SubSeq(s, k + 1, Len(s))

\* the team of the matchup that is not main_team
OtherTeam == CHOOSE t \in {team_a, team_b} : t # main_team

C2_OpponentCap ==
    pc \in {"build_sgp", "make_safe"} =>
        /\ Count(chosen, LAMBDA x : x.team = OtherTeam) <= 1
        /\ Count(safe, LAMBDA x : x.team = OtherTeam) <= 1

C2_Witness ==
    /\ pc = "make_safe"
    /\ Count(cands, LAMBDA x : x.team = OtherTeam) >= 3
    /\ Count(chosen, LAMBDA x : x.team = OtherTeam) = 1
    /\ Len(chosen) < (IF n_legs > 5 THEN 5 ELSE IF n_legs < 3 THEN 3 ELSE n_legs)

\* C3: no two legs of the slip build_sgp returns, nor of the Safe Slip, have
\* the same player name and the same stat.
C3_NoDuplicateLeg ==
    pc \in {"build_sgp", "make_safe"} =>
        /\ \A i, j \in 1..Len(chosen) :
               (chosen[i].player = chosen[j].player /\ chosen[i].stat = chosen[j].stat) => i = j
        /\ \A i, j \in 1..Len(safe) :
               (safe[i].player = safe[j].player /\ safe[i].stat = safe[j].stat) => i = j

\* a pool with a repeated (player, stat) pair, and a slip with two stats of one player
C3_Witness ==
    /\ pc = "build_sgp"
    /\ \E i, j \in 1..Len(cands) :
           i # j /\ cands[i].player = cands[j].player /\ cands[i].stat = cands[j].stat
    /\ \E i, j \in 1..Len(chosen) :
           chosen[i].player = chosen[j].player /\ chosen[i].stat # chosen[j].stat

\* C4: no candidate of the pooled list has a line of 0 or less.
C4_NoNonPositiveLine ==
    \A k \in 1..Len(cands) : cands[k].line > 0

\* C5: make_safe returns a slip of 3 or fewer legs as it is; of a longer one it
\* returns the legs but one, in their order, and the leg left out is one no
\* other leg exceeds under (variance rank, is-PTS).
C5_SafeReduction ==
    pc = "make_safe" =>
        IF Len(chosen) <= 3 THEN safe = chosen
        ELSE /\ Len(safe) = Len(chosen) - 1
             /\ \E k \in 1..Len(chosen) :
                  /\ safe = RemoveAt(chosen, k)
                  /\ \A j \in 1..Len(chosen) :
                        \/ chosen[j].variance < chosen[k].variance
                        \/ /\ chosen[j].variance = chosen[k].variance
                           /\ (chosen[j].stat = "PTS") => (chosen[k].stat = "PTS")

\* a slip of four legs whose worst leg has a twin of the same content
C5_Witness ==
    /\ pc = "make_safe" /\ Len(chosen) = 4 /\ Len(safe) = 3
    /\ chosen[2].stat = "PTS" /\ chosen[4].stat = "PTS"
    /\ chosen[2].player = chosen[4].player
    /\ chosen[1].stat = "REB" /\ chosen[3].stat = "PRA"

\* C6: minutes_gate is false on a window that has not exactly 5 games; on one of
\* 5 games it is true exactly when every game has 28 minutes or more, or all
\* games but at most one have more than 30.
C6_MinutesGate ==
    pc = "minutes_gate" =>
        LET m == [i \in 1..Len(last5) |-> last5[i].min]
        IN  /\ Len(m) # 5 => ~mins_ok
            /\ Len(m) = 5 =>
                  (mins_ok <=> \/ \A i \in 1..5 : m[i] >= 28
                               \/ \E skip \in 1..5 : \A i \in (1..5) \ {skip} : m[i] > 30)
            /\ m = <<31, 31, 31, 31, 20>> => mins_ok
            /\ m = <<31, 31, 31, 27, 27>> => ~mins_ok

C6_Witness ==
    /\ pc = "minutes_gate" /\ mins_ok
    /\ [i \in 1..Len(last5) |-> last5[i].min] = <<31, 31, 31, 31, 20>>

\* C7: floor_line is 0 on an empty list and the integer part of nine tenths of
\* the least value otherwise, so never above any of the values; each row of
\* build_floor_output (the rows the candidate legs take their line from) has
\* the floor_line of its own stat's values: REB of the rebounds, AST of the
\* assists, PRA of the sums, PTS of the points.
C7_FloorLine ==
    /\ pc = "floor_line" =>
          /\ values = <<>> => line = 0
          /\ values # <<>> =>
                /\ \E i \in 1..Len(values) :
                      /\ \A j \in 1..Len(values) : values[i] <= values[j]
                      /\ line = (9 * values[i]) \div 10
                /\ \A j \in 1..Len(values) : line <= values[j]
    /\ pc = "build_floor_output" =>
          /\ {floor_df[k].stat : k \in 1..Len(floor_df)} = {"REB", "AST", "PRA", "PTS"}
          /\ \A k \in 1..Len(floor_df) :
                LET own == [i \in 1..Len(last5) |->
                               CASE floor_df[k].stat = "REB" -> last5[i].reb
                                 [] floor_df[k].stat = "AST" -> last5[i].ast
                                 [] floor_df[k].stat = "PRA" ->
                                        last5[i].pts + last5[i].reb + last5[i].ast
                                 [] floor_df[k].stat = "PTS" -> last5[i].pts]
                IN  /\ own = <<>> => floor_df[k].line = 0
                    /\ own # <<>> =>
                          /\ \E i \in 1..Len(own) :
                                /\ \A j \in 1..Len(own) : own[i] <= own[j]
                                /\ floor_df[k].line = (9 * own[i]) \div 10
                          /\ \A j \in 1..Len(own) : floor_df[k].line <= own[j]

C7_Witness ==
    /\ pc = "floor_line" /\ values = <<12, 10>> /\ line = 9

\* C8 as claimed: choose_main_team returns the team with strictly more
\* eligible players, and team A whenever the two counts are equal.
C8_TieGoesToTeamA ==
    pc = "choose_main_team" =>
        LET nA == Count(players_meta, LAMBDA p : p.eligible /\ p.team = team_a)
            nB == Count(players_meta, LAMBDA p : p.eligible /\ p.team = team_b)
        IN  /\ nA > nB => main_team = team_a
            /\ nB > nA => main_team = team_b
            /\ nA = nB => main_team = team_a

\* C8 as amended: choose_main_team returns the team with strictly more
\* eligible players; when the two counts are equal it returns the team of the
\* first eligible entry of the list that is on team A or team B, and team A
\* when there is no such entry.
C8_TieGoesToFirstListed ==
    pc = "choose_main_team" =>
        LET nA == Count(players_meta, LAMBDA p : p.eligible /\ p.team = team_a)
            nB == Count(players_meta, LAMBDA p : p.eligible /\ p.team = team_b)
            on == {i \in 1..Len(players_meta) :
                      players_meta[i].eligible /\ players_meta[i].team \in {team_a, team_b}}
        IN  /\ nA > nB => main_team = team_a
            /\ nB > nA => main_team = team_b
            /\ (nA = nB /\ on = {}) => main_team = team_a
            /\ (nA = nB /\ on # {}) =>
                  \E i \in on : (\A j \in on : i <= j) /\ main_team = players_meta[i].team

\* equal counts, team B's eligible player listed first
C8_Witness ==
    /\ pc = "choose_main_team" /\ main_team = team_b
    /\ Count(players_meta, LAMBDA p : p.eligible /\ p.team = team_a) = 1
    /\ Count(players_meta, LAMBDA p : p.eligible /\ p.team = team_b) = 1
    /\ players_meta[1].team = "NYK" /\ players_meta[1].eligible

\* C9: a player has at most 3 picks and the pool holds exactly the picks of
\* the players; a player has picks only with exactly 5 games that pass the
\* minutes gate; the picks not on PTS come first, in the order REB, AST, PRA;
\* a pick on PTS is there only if fewer than 3 picks are not on PTS.
RECURSIVE SumPicks(_, _)
SumPicks(meta, i) == IF i = 0 THEN 0 ELSE Len(meta[i].picks) + SumPicks(meta, i - 1)

C9_PerPlayerCap ==
    pc # "idle" =>
        /\ \A i \in 1..Len(players_meta) :
              LET pm == players_meta[i]
                  m == pm.mins
                  rank == [REB |-> 1, AST |-> 2, PRA |-> 3, PTS |-> 4]
              IN  /\ Len(pm.picks) <= 3
                  /\ pm.picks # <<>> =>
                        /\ Len(pm.last5) = 5 /\ Len(m) = 5
                        /\ \/ \A g \in 1..5 : m[g] >= 28
                           \/ Cardinality({g \in 1..5 : m[g] > 30}) >= 4
                  /\ \A a, b \in 1..Len(pm.picks) :
                        a < b => rank[pm.picks[a].stat] < rank[pm.picks[b].stat]
                  /\ (\E a \in 1..Len(pm.picks) : pm.picks[a].stat = "PTS") =>
                        Count(pm.picks, LAMBDA r : r.stat # "PTS") < 3
        /\ pc = "built" => Len(cands) = SumPicks(players_meta, Len(players_meta))

\* a starter with three picks beside a bench player and a player of 4 games
C9_Witness ==
    /\ pc = "built" /\ Len(cands) = 3
    /\ \E i, j, k \in 1..Len(players_meta) :
          /\ Len(players_meta[i].picks) = 3
          /\ <<players_meta[i].picks[1].stat, players_meta[i].picks[2].stat,
               players_meta[i].picks[3].stat>> = <<"REB", "AST", "PRA">>
          /\ Len(players_meta[j].last5) = 5 /\ players_meta[j].picks = <<>>
          /\ Len(players_meta[k].last5) = 4 /\ players_meta[k].picks = <<>>

\* C10: when the slip build_sgp returns has fewer legs than asked for (clamped
\* to [3,5]) and no leg of the opposing team, every candidate of the opposing
\* team in the pool has its (player, stat) pair in the slip.
C10_OpponentNotStarved ==
    (/\ pc \in {"build_sgp", "built", "no_bet"}
     /\ main_team \in {team_a, team_b}
     /\ Len(chosen) < (IF n_legs > 5 THEN 5 ELSE IF n_legs < 3 THEN 3 ELSE n_legs)
     /\ Count(chosen, LAMBDA x : x.team = OtherTeam) = 0)
    => \A k \in 1..Len(cands) :
          cands[k].team = OtherTeam =>
              \E i \in 1..Len(chosen) :
                  chosen[i].player = cands[k].player /\ chosen[i].stat = cands[k].stat

\* the position in a sorted pool of the candidate dict with identity id
PosOf(sorted, id) == CHOOSE k \in 1..Len(sorted) : sorted[k].id = id

\* a PTS candidate of the pool stands earlier after the Higher-risk sort than
\* after the Safe/Ideal sort of the same pool
PtsEarlier(pool) ==
    \E k \in 1..Len(pool) :
        /\ pool[k].stat = "PTS"
        /\ PosOf(SortCands(pool, "Higher-risk"), pool[k].id)
               < PosOf(SortCands(pool, "Ideal"), pool[k].id)

\* C11: there is a candidate pool that the Higher-risk key sorts with a PTS
\* candidate at an earlier position than the Safe/Ideal key (pref, variance,
\* player) sorts it: once a pool has been sorted, some pool of the pools the
\* sort is applied to has that property.
C11_HigherRiskPtsEarlier ==
    pc = "sorted" => \E pool \in SortPools : PtsEarlier(pool)

\* what the sort does instead: in no pool does a PTS candidate stand earlier
\* after the Higher-risk sort, and in some pool one stands later
C11_PtsNeverEarlier ==
    pc = "flattened" => ~PtsEarlier(cands)

C11_PtsLater ==
    /\ pc = "flattened"
    /\ \E k \in 1..Len(cands) :
          /\ cands[k].stat = "PTS"
          /\ PosOf(SortCands(cands, "Higher-risk"), cands[k].id)
                 > PosOf(SortCands(cands, "Ideal"), cands[k].id)

\* the players of the fetched logs of both teams
FetchedPlayers == teamA_players \o teamB_players

DistinctNames ==
    \A i, j \in 1..Len(FetchedPlayers) :
        i # j => FetchedPlayers[i].name # FetchedPlayers[j].name

\* a fetched player with exactly 5 games that pass the minutes gate
EligibleFetched(p) == Len(p.games) = 5 /\ minutes_gate(p.games)

AnyEligible == \E i \in 1..Len(FetchedPlayers) : EligibleFetched(FetchedPlayers[i])

\* C12: after a click on a matchup of two different team codes whose player
\* names are all distinct, in any mode: if some player is eligible the outcome
\* is a built slip of at least 3 legs, and the inferred main team has an
\* eligible player with three candidate legs of distinct stats in the pool;
\* the no-bet outcome is reached only when no player is eligible.
C12_EligibleAlwaysBuilds ==
    (pc # "idle" /\ team_a # team_b /\ DistinctNames) =>
        /\ AnyEligible =>
              /\ pc = "built"
              /\ Len(chosen) >= 3
              /\ \E i \in 1..Len(players_meta) :
                    /\ players_meta[i].eligible
                    /\ players_meta[i].team = main_team
                    /\ Cardinality({cands[k].stat : k \in
                          {k \in 1..Len(cands) :
                              /\ cands[k].player = players_meta[i].name
                              /\ cands[k].team = main_team}}) = 3
        /\ pc = "no_bet" => ~AnyEligible

\* a slip built in Higher-risk mode from distinct names with an eligible
\* player on each team and an ineligible one beside them
C12_Witness ==
    /\ pc = "built" /\ risk_mode = "Higher-risk" /\ team_a # team_b /\ DistinctNames
    /\ \E i \in 1..Len(teamA_players) : EligibleFetched(teamA_players[i])
    /\ \E i \in 1..Len(teamB_players) : EligibleFetched(teamB_players[i])
    /\ \E i \in 1..Len(FetchedPlayers) : ~EligibleFetched(FetchedPlayers[i])
    /\ Len(chosen) >= 3

====
